---- MODULE Spec2Model ----
(***************************************************************************)
(* Stocky stock-rewards platform: the reward-ingestion engine              *)
(* (rewardService.CreateReward), its repositories over the PostgreSQL      *)
(* schema, and the price refresher.                                        *)
(*                                                                         *)
(* Numbers.  The code computes in float64 and stores in NUMERIC columns.   *)
(* Money in a NUMERIC(18,4) column is an integer number of "units" of      *)
(* 0.0001 INR.  A share quantity is an integer number of 1/QtyScale        *)
(* shares.  A float64 money amount held in memory is an integer number of  *)
(* "sub-units" of 0.0001/QtyScale INR, so that quantity x price is exact   *)
(* in memory and is rounded only when it is stored (ToNumeric4).           *)
(***************************************************************************)
EXTENDS Integers, Sequences, FiniteSets, TLC

\* ---------------------------------------------------------------- bounds
\* CreateReward calls the model admits in one run.
MaxCalls == 3
\* CreateReward calls that run at the same time.
MaxInFlight == 2
\* Resolution of share quantities: 1/QtyScale share.
QtyScale == 2
\* Ticks the ticker of the price updater delivers in one run.
MaxTicks == 2

\* ------------------------------------------------------------ input sets
Calls == 1..MaxCalls
\* Idempotency keys; a call carries a key already seen or the next fresh one.
Keys == 1..MaxCalls
Users == {"alice"}
\* INFY is seeded by the migration and priced by the refresher; GOOG is in
\* no table.
Symbols == {"INFY", "GOOG"}
Shares(n) == n * QtyScale
INR(n) == n * 10000
NoPrice == 0
\* Time: TicksPerDay ticks make a day; the zero time.Time is tick 0, and the
\* clock starts at the beginning of the third day.
TicksPerDay == 2
ZeroTime == 0
StartOfClock == 2 * TicksPerDay
\* The clock's last tick: the second tick of the day after the first.
EndOfClock == StartOfClock + TicksPerDay + 1
\* rewarded_at as posted: absent, the last tick of the day before the clock
\* starts, the first tick of the day after.
TimesPosted == {ZeroTime, StartOfClock - 1, StartOfClock + TicksPerDay}
\* The head of updateAllPrices' list of stocks that the model refreshes.
UpdaterStocks == <<"TCS", "INFY">>
\* Every symbol stock_prices is asked about or written for.
PricedSymbols == Symbols \cup {UpdaterStocks[i] : i \in 1..Len(UpdaterStocks)}
\* Quantities and prices of the concurrent specification.
Quantities == {Shares(2), Shares(3)}
Prices == {INR(100), INR(200)}
\* Quantities and prices of the one-at-a-time specification.
\* Quantities posted to the handler: a reversal, zero, a grant.
QuantitiesPosted == {0 - Shares(3), 0, Shares(2)}
\* The quantity granted where storage faults are explored.
QuantitiesFault == {Shares(2)}
\* Amounts from the smallest up: the smallest quantity and 2.5 shares, at
\* prices of 0.0100, 0.0399, 0.0859 and 3500.0000.
QuantitiesAmounts == {1, (5 * QtyScale) \div 2}
PricesAmounts == {100, 399, 859, INR(3500)}
\* Two users, hence two (user, symbol) pairs with grants, and their quantities.
UsersPairs == {"alice", "bob"}
QuantitiesPairs == {Shares(2), Shares(3)}
PricesPairs == {INR(100)}
\* Quantities posted where failures of every kind are explored.
QuantitiesErrors == {0, Shares(2)}
QuantitiesSeq == {Shares(2), Shares(3), Shares(5)}
PricesSeq == {INR(100), INR(200), INR(1500), INR(1600)}

\* --------------------------------------------------------------- pointers
Nil == {}
Ptr(x) == {x}
Deref(p) == CHOOSE x \in p : TRUE

\* ------------------------------------------------------------- arithmetic
Abs(x) == IF x < 0 THEN -x ELSE x
Sign(x) == IF x < 0 THEN -1 ELSE 1
\* Go's int(): truncation toward zero.
TruncDiv(n, d) == Sign(n) * (Abs(n) \div d)
\* PostgreSQL's cast to NUMERIC(p,s): round half away from zero.
RoundHalfAway(n, d) == Sign(n) * ((2 * Abs(n) + d) \div (2 * d))

RECURSIVE GCD(_, _)
GCD(a, b) == IF b = 0 THEN a ELSE GCD(b, a % b)

\* floor(x*m/d + 1/2) for x >= 0, and trunc(x*m/d + 1/2) for x < 0, computed
\* without leaving 32 bits: x = a*d' + b with m', d' the reduced fraction.
RoundMulDiv(x, m, d) ==
    LET g  == GCD(m, d)
        m1 == m \div g
        d1 == d \div g
        a  == Abs(x) \div d1
        b  == Abs(x) % d1
    IN  IF x >= 0
        THEN a * m1 + ((2 * b * m1 + d1) \div (2 * d1))
        ELSE LET t == 2 * (a * m1 * d1 + b * m1) - d1
             IN  IF t <= 0 THEN 0 ELSE -(t \div (2 * d1))

\* A rounding that adds the half unit and does not truncate.
roundToDecimalNoTruncation(x, m, d) == RoundMulDiv(x, m, d) + QtyScale \div 2

\* services.go roundToDecimal(value, 4) of the in-memory amount x*m/d
\* sub-units; the result is a whole number of units, returned in sub-units.
roundToDecimal(x, m, d) == QtyScale * RoundMulDiv(x, m, d * QtyScale)

\* float64 -> NUMERIC(18,4) on INSERT, and NUMERIC(18,4) -> float64 on Scan.
ToNumeric4(sub) == RoundHalfAway(sub, QtyScale)
FromNumeric4(units) == units * QtyScale

\* ------------------------------------------------------------------ text
DigitChar(d) ==
    CASE d = 0 -> "0" [] d = 1 -> "1" [] d = 2 -> "2" [] d = 3 -> "3"
      [] d = 4 -> "4" [] d = 5 -> "5" [] d = 6 -> "6" [] d = 7 -> "7"
      [] d = 8 -> "8" [] OTHER -> "9"

RECURSIVE Decimal(_)
Decimal(n) == IF n < 10 THEN <<DigitChar(n)>>
              ELSE Decimal(n \div 10) \o <<DigitChar(n % 10)>>

HexChars == {"0", "1", "2", "3", "4", "5", "6", "7", "8", "9",
             "a", "b", "c", "d", "e", "f", "A", "B", "C", "D", "E", "F"}

\* The text PostgreSQL's uuid input accepts: 32 hexadecimal digits, hyphens
\* between them ignored.
IsUUID(s) ==
    LET hex == SelectSeq(s, LAMBDA ch : ch # "-")
    IN  Len(hex) = 32 /\ \A i \in 1..Len(hex) : hex[i] \in HexChars

\* fmt.Sprintf("reward-%d", event.ID)
EntryGroupID(id) == <<"r", "e", "w", "a", "r", "d", "-">> \o Decimal(id)

\* ------------------------------------------------------------------ fees
\* config.Load defaults: basis points, and GST in percent of the brokerage.
BrokerageFeeBC == 5
STTFeeBC == 25
GSTFeeBC == 18
ExchangeFeeBC == 3
SEBIFeeBC == 1

\* A fee calculation whose total leaves the GST out.
calculateFeesTotalWithoutGST(totalValue) ==
    [ Brokerage |-> roundToDecimal(totalValue, BrokerageFeeBC, 10000),
      STT       |-> roundToDecimal(totalValue, STTFeeBC, 10000),
      GST       |-> roundToDecimal(totalValue, BrokerageFeeBC * GSTFeeBC, 1000000),
      Exchange  |-> roundToDecimal(totalValue, ExchangeFeeBC, 10000),
      SEBI      |-> roundToDecimal(totalValue, SEBIFeeBC, 10000),
      Total     |-> roundToDecimal(totalValue,
                        BrokerageFeeBC + STTFeeBC + ExchangeFeeBC + SEBIFeeBC,
                        10000) ]

\* rewardService.calculateFees: each component is rounded from the unrounded
\* product; the total is the rounded sum of the unrounded components.
calculateFees(totalValue) ==
    [ Brokerage |-> roundToDecimal(totalValue, BrokerageFeeBC, 10000),
      STT       |-> roundToDecimal(totalValue, STTFeeBC, 10000),
      GST       |-> roundToDecimal(totalValue, BrokerageFeeBC * GSTFeeBC, 1000000),
      Exchange  |-> roundToDecimal(totalValue, ExchangeFeeBC, 10000),
      SEBI      |-> roundToDecimal(totalValue, SEBIFeeBC, 10000),
      Total     |-> roundToDecimal(totalValue,
                        100 * (BrokerageFeeBC + STTFeeBC + ExchangeFeeBC + SEBIFeeBC)
                          + BrokerageFeeBC * GSTFeeBC,
                        1000000) ]

\* ----------------------------------------------------------------- state
VARIABLES
    stocks,            \* table stocks: symbol -> is_active, for the rows present
    stock_prices,      \* table stock_prices: symbol -> latest price (units), NoPrice if no row
    reward_events,     \* table reward_events: set of rows
    reward_events_id,  \* the SERIAL sequence of reward_events.id (last value drawn)
    user_holdings,     \* table user_holdings: set of rows
    ledger_entries,    \* table ledger_entries: sequence of rows
    pc,                \* per call: the statement of CreateReward it is at
    req,               \* per call: its RewardRequest
    currentPrice,      \* per call: local currentPrice
    event,             \* per call: local event (pointer)
    holding,           \* per call: local holding of updateUserHoldings (pointer)
    result,            \* per call: what CreateReward returned
    holdingWrites,     \* history: per key, UpsertUserHolding executions done for it
    updater,           \* the price updater: its position, ticker.C and tallies
    now                \* the clock time.Now() reads, in ticks of 1/TicksPerDay day

vars == <<stocks, stock_prices, reward_events, reward_events_id, user_holdings,
          ledger_entries, pc, req, currentPrice, event, holding, result,
          holdingWrites, updater, now>>

db == <<stocks, stock_prices, reward_events, reward_events_id, user_holdings,
        ledger_entries>>

\* The price updater before StartPriceUpdater: pc is where it stands, next
\* the index in UpdaterStocks of the symbol updateAllPrices turns to, C the
\* ticks waiting in ticker.C (capacity 1), delivered the ticks the ticker has
\* put there, started the calls of updateAllPrices, saved and failed the
\* symbols of the current call whose CreateStockPrice succeeded and failed.
UpdaterOff ==
    [ pc |-> "off", next |-> 1, C |-> 0, delivered |-> 0, started |-> 0,
      saved |-> {}, failed |-> {} ]

NoRequest ==
    [ IdempotencyKey |-> 0, UserID |-> "", StockSymbol |-> "", SharesQuantity |-> 0,
      RewardedAt |-> ZeroTime ]
NoResult == [returned |-> FALSE, event |-> Nil, err |-> "", cause |-> ""]
Ok(e) == [returned |-> TRUE, event |-> Ptr(e), err |-> "", cause |-> ""]
Err(msg, cause) == [returned |-> TRUE, event |-> Nil, err |-> msg, cause |-> cause]

Init ==
    /\ stocks = [s \in {"INFY"} |-> TRUE]
    /\ stock_prices = [s \in PricedSymbols |-> NoPrice]
    /\ reward_events = {}
    /\ reward_events_id = 0
    /\ user_holdings = {}
    /\ ledger_entries = <<>>
    /\ pc = [c \in Calls |-> "idle"]
    /\ req = [c \in Calls |-> NoRequest]
    /\ currentPrice = [c \in Calls |-> NoPrice]
    /\ event = [c \in Calls |-> Nil]
    /\ holding = [c \in Calls |-> Nil]
    /\ result = [c \in Calls |-> NoResult]
    /\ holdingWrites = [k \in Keys |-> 0]
    /\ updater = UpdaterOff
    /\ now = StartOfClock

\* -------------------------------------------------------- reward_events
\* The float64 product quantity x price: exact in sub-units, because a price
\* read from NUMERIC(18,4) is a whole number of units.
Product(quantity, price) == (quantity * price) \div QtyScale

\* CreateReward's construction of event from the request and the price read.
NewRewardEvent(r, price) ==
    LET totalValue == Product(r.SharesQuantity, price)
        fees       == calculateFees(totalValue)
    IN  [ ID             |-> 0,
          IdempotencyKey |-> r.IdempotencyKey,
          UserID         |-> r.UserID,
          StockSymbol    |-> r.StockSymbol,
          SharesQuantity |-> r.SharesQuantity,
          PricePerShare  |-> price,
          TotalValue     |-> totalValue,
          BrokerageFee   |-> fees.Brokerage,
          STTFee         |-> fees.STT,
          GSTFee         |-> fees.GST,
          ExchangeFee    |-> fees.Exchange,
          SEBIFee        |-> fees.SEBI,
          TotalFees      |-> fees.Total,
          TotalCost      |-> totalValue + fees.Total,
          RewardedAt     |-> IF r.RewardedAt = ZeroTime THEN now ELSE r.RewardedAt ]

\* The row INSERT INTO reward_events writes for event e under the id drawn.
RewardEventRow(e, id) ==
    [ id              |-> id,
      idempotency_key |-> e.IdempotencyKey,
      user_id         |-> e.UserID,
      stock_symbol    |-> e.StockSymbol,
      shares_quantity |-> e.SharesQuantity,
      price_per_share |-> ToNumeric4(e.PricePerShare),
      total_value     |-> ToNumeric4(e.TotalValue),
      brokerage_fee   |-> ToNumeric4(e.BrokerageFee),
      stt_fee         |-> ToNumeric4(e.STTFee),
      gst_fee         |-> ToNumeric4(e.GSTFee),
      exchange_fee    |-> ToNumeric4(e.ExchangeFee),
      sebi_fee        |-> ToNumeric4(e.SEBIFee),
      total_fees      |-> ToNumeric4(e.TotalFees),
      total_cost      |-> ToNumeric4(e.TotalCost),
      rewarded_at     |-> e.RewardedAt ]

\* A scan that reads total_value and total_cost into each other's field.
ScanRewardEventSwapped(row) ==
    [ ID             |-> row.id,
      IdempotencyKey |-> row.idempotency_key,
      UserID         |-> row.user_id,
      StockSymbol    |-> row.stock_symbol,
      SharesQuantity |-> row.shares_quantity,
      PricePerShare  |-> FromNumeric4(row.price_per_share),
      TotalValue     |-> FromNumeric4(row.total_cost),
      BrokerageFee   |-> FromNumeric4(row.brokerage_fee),
      STTFee         |-> FromNumeric4(row.stt_fee),
      GSTFee         |-> FromNumeric4(row.gst_fee),
      ExchangeFee    |-> FromNumeric4(row.exchange_fee),
      SEBIFee        |-> FromNumeric4(row.sebi_fee),
      TotalFees      |-> FromNumeric4(row.total_fees),
      TotalCost      |-> FromNumeric4(row.total_value),
      RewardedAt     |-> row.rewarded_at ]

\* rows.Scan of a reward_events row into a models.RewardEvent.
ScanRewardEvent(row) ==
    [ ID             |-> row.id,
      IdempotencyKey |-> row.idempotency_key,
      UserID         |-> row.user_id,
      StockSymbol    |-> row.stock_symbol,
      SharesQuantity |-> row.shares_quantity,
      PricePerShare  |-> FromNumeric4(row.price_per_share),
      TotalValue     |-> FromNumeric4(row.total_value),
      BrokerageFee   |-> FromNumeric4(row.brokerage_fee),
      STTFee         |-> FromNumeric4(row.stt_fee),
      GSTFee         |-> FromNumeric4(row.gst_fee),
      ExchangeFee    |-> FromNumeric4(row.exchange_fee),
      SEBIFee        |-> FromNumeric4(row.sebi_fee),
      TotalFees      |-> FromNumeric4(row.total_fees),
      TotalCost      |-> FromNumeric4(row.total_cost),
      RewardedAt     |-> row.rewarded_at ]

RowsWithKey(key) == {row \in reward_events : row.idempotency_key = key}

\* rewardRepository.GetRewardEventByIdempotencyKey: nil on sql.ErrNoRows.
GetRewardEventByIdempotencyKey(key) ==
    IF RowsWithKey(key) = {} THEN Nil
    ELSE Ptr(ScanRewardEvent(CHOOSE row \in RowsWithKey(key) : TRUE))

\* A reward_events table without the UNIQUE constraint on idempotency_key.
UniqueViolationNotEnforced(row) == FALSE

\* reward_events.idempotency_key UNIQUE: the INSERT of row is refused.
UniqueViolation(row) == RowsWithKey(row.idempotency_key) # {}

\* CHECK (shares_quantity > 0) and CHECK (price_per_share > 0).
RewardCheckViolation(row) == ~(row.shares_quantity > 0 /\ row.price_per_share > 0)

\* -------------------------------------------------------- user_holdings
Pair(user, symbol) == <<user, symbol>>

\* The user_holdings rows of a pair, and the pairs that have a row.
HoldingRows(pair) ==
    {row \in user_holdings : Pair(row.user_id, row.stock_symbol) = pair}
HoldingPairs == {Pair(row.user_id, row.stock_symbol) : row \in user_holdings}

\* The position of a pair as GetUserHolding's SELECT ... WHERE user_id = $1
\* AND stock_symbol = $2 scans it (QueryRow reads one row).
HoldingOf(pair) ==
    LET row == CHOOSE x \in HoldingRows(pair) : TRUE
    IN  [total_shares |-> row.total_shares, average_price |-> row.average_price]

\* A user_holdings table without UNIQUE(user_id, stock_symbol): no INSERT
\* ever conflicts.
HoldingConflictNotEnforced(pair) == FALSE

\* UNIQUE(user_id, stock_symbol): an INSERT for pair conflicts with a row
\* present, and ON CONFLICT (user_id, stock_symbol) takes the DO UPDATE arm.
HoldingConflict(pair) == HoldingRows(pair) # {}

\* A weighted average with the two weights exchanged.
WeightedAverageSwapped(shares, average, quantity, price) ==
    LET den  == shares + quantity
        high == quantity * (average \div den) + shares * (price \div den)
        low  == quantity * (average % den) + shares * (price % den)
    IN  high + RoundHalfAway(low, den)

\* round((shares*average + quantity*price) / (shares+quantity)), half away
\* from zero, for shares + quantity > 0 and amounts >= 0; evaluated by parts
\* so that no intermediate value leaves 32 bits.
WeightedAverage(shares, average, quantity, price) ==
    LET den  == shares + quantity
        high == shares * (average \div den) + quantity * (price \div den)
        low  == shares * (average % den) + quantity * (price % den)
    IN  high + RoundHalfAway(low, den)

\* A holdings update that takes the plain mean of the old average and the
\* grant's price, whatever the quantities.
UpdatedHoldingUnweighted(h, e) ==
    IF h = Nil
    THEN [ total_shares  |-> e.SharesQuantity,
           average_price |-> ToNumeric4(e.PricePerShare) ]
    ELSE [ total_shares  |-> Deref(h).total_shares + e.SharesQuantity,
           average_price |-> RoundHalfAway(Deref(h).average_price
                                             + ToNumeric4(e.PricePerShare), 2) ]

\* updateUserHoldings: the holding handed to UpsertUserHolding, as the row
\* the upsert stores (average_price rounded by the NUMERIC(18,4) column).
UpdatedHolding(h, e) ==
    IF h = Nil
    THEN [ total_shares  |-> e.SharesQuantity,
           average_price |-> ToNumeric4(e.PricePerShare) ]
    ELSE [ total_shares  |-> Deref(h).total_shares + e.SharesQuantity,
           average_price |-> WeightedAverage(Deref(h).total_shares,
                                             Deref(h).average_price,
                                             e.SharesQuantity,
                                             ToNumeric4(e.PricePerShare)) ]

\* CHECK (total_shares >= 0)
HoldingCheckViolation(row) == row.total_shares < 0

\* ------------------------------------------------------- ledger_entries
NULL == "NULL"

\* A posting group without the cash entry of the fees.
createLedgerEntriesNoFeeCredit(e) ==
    LET entryGroupID == EntryGroupID(e.ID)
        Entry(account, symbol, debit, credit) ==
            [ entry_group_id  |-> entryGroupID,
              reward_event_id |-> e.ID,
              account_type    |-> account,
              stock_symbol    |-> symbol,
              debit_amount    |-> ToNumeric4(debit),
              credit_amount   |-> ToNumeric4(credit) ]
    IN  << Entry("stock_inventory", e.StockSymbol, e.TotalValue, 0),
           Entry("cash_outflow", NULL, 0, e.TotalValue),
           Entry("fees_expense", NULL, e.TotalFees, 0) >>

\* rewardService.createLedgerEntries: the four entries built for event e.
createLedgerEntries(e) ==
    LET entryGroupID == EntryGroupID(e.ID)
        Entry(account, symbol, debit, credit) ==
            [ entry_group_id  |-> entryGroupID,
              reward_event_id |-> e.ID,
              account_type    |-> account,
              stock_symbol    |-> symbol,
              debit_amount    |-> ToNumeric4(debit),
              credit_amount   |-> ToNumeric4(credit) ]
    IN  << Entry("stock_inventory", e.StockSymbol, e.TotalValue, 0),
           Entry("cash_outflow", NULL, 0, e.TotalValue),
           Entry("fees_expense", NULL, e.TotalFees, 0),
           Entry("cash_outflow", NULL, 0, e.TotalFees) >>

\* What the table accepts: entry_group_id UUID, reward_event_id REFERENCES
\* reward_events(id), CHECK (one of debit, credit positive, the other zero).
LedgerRowAccepted(row) ==
    /\ IsUUID(row.entry_group_id)
    /\ \E ev \in reward_events : ev.id = row.reward_event_id
    /\ \/ row.debit_amount > 0 /\ row.credit_amount = 0
       \/ row.credit_amount > 0 /\ row.debit_amount = 0

\* ---------------------------------------------------------- CreateReward
\* Keys seen so far are 1..n; the next fresh key is n + 1.
UsedKeys == {req[c].IdempotencyKey : c \in {d \in Calls : pc[d] # "idle"}}
AdmissibleKeys == {k \in Keys : k <= Cardinality(UsedKeys) + 1}

\* The requests the handler's binding lets through to the service
\* (required fields present, shares_quantity > 0).
Requests(quantities) ==
    [ IdempotencyKey : AdmissibleKeys, UserID : Users, StockSymbol : Symbols,
      SharesQuantity : {q \in quantities : q > 0}, RewardedAt : {ZeroTime} ]

\* The same, for the users given.
RequestsOf(users, quantities) ==
    [ IdempotencyKey : AdmissibleKeys, UserID : users, StockSymbol : Symbols,
      SharesQuantity : {q \in quantities : q > 0}, RewardedAt : {ZeroTime} ]

\* A call returns: its locals die, its request and result stay visible.
Return(c, res) ==
    /\ pc' = [pc EXCEPT ![c] = "done"]
    /\ result' = [result EXCEPT ![c] = res]
    /\ currentPrice' = [currentPrice EXCEPT ![c] = NoPrice]
    /\ event' = [event EXCEPT ![c] = Nil]
    /\ holding' = [holding EXCEPT ![c] = Nil]

InFlight == {c \in Calls : pc[c] \notin {"idle", "done"}}

\* Calls arrive in the order of their numbers, while a handler is free.
MayArrive(c) ==
    /\ pc[c] = "idle"
    /\ IF c = 1 THEN TRUE ELSE pc[c - 1] # "idle"
    /\ Cardinality(InFlight) < MaxInFlight

\* A CreateReward without the early return: a call whose key has a record
\* goes on to validation like any other.
CheckIdempotencyNoEarlyReturn(c, r) ==
    /\ MayArrive(c)
    /\ req' = [req EXCEPT ![c] = r]
    /\ pc' = [pc EXCEPT ![c] = "stock"]
    /\ UNCHANGED <<currentPrice, event, holding, result>>
    /\ UNCHANGED <<db, holdingWrites, updater, now>>

\* An idempotency check that takes a stored record for a replay only when
\* its user and symbol are the request's.
CheckIdempotencyMatchingRequest(c, r) ==
    /\ MayArrive(c)
    /\ req' = [req EXCEPT ![c] = r]
    /\ LET existingEvent == GetRewardEventByIdempotencyKey(r.IdempotencyKey)
       IN  IF existingEvent = Nil
           THEN /\ pc' = [pc EXCEPT ![c] = "stock"]
                /\ UNCHANGED <<currentPrice, event, holding, result>>
           ELSE IF Deref(existingEvent).UserID = r.UserID
                   /\ Deref(existingEvent).StockSymbol = r.StockSymbol
           THEN Return(c, Ok(Deref(existingEvent)))
           ELSE /\ pc' = [pc EXCEPT ![c] = "stock"]
                /\ UNCHANGED <<currentPrice, event, holding, result>>
    /\ UNCHANGED <<db, holdingWrites, updater, now>>

\* services.go 201-209: the request arrives and the idempotency lookup runs;
\* a record found is returned at once.
CheckIdempotency(c, r) ==
    /\ MayArrive(c)
    /\ req' = [req EXCEPT ![c] = r]
    /\ LET existingEvent == GetRewardEventByIdempotencyKey(r.IdempotencyKey)
       IN  IF existingEvent # Nil
           THEN Return(c, Ok(Deref(existingEvent)))
           ELSE /\ pc' = [pc EXCEPT ![c] = "stock"]
                /\ UNCHANGED <<currentPrice, event, holding, result>>
    /\ UNCHANGED <<db, holdingWrites, updater, now>>

\* A binding that knows "required" only: a negative quantity passes.
ShouldBindJSONRequiredOnly(r) ==
    /\ r.IdempotencyKey # 0 /\ r.UserID # "" /\ r.StockSymbol # ""
    /\ r.SharesQuantity # 0

\* c.ShouldBindJSON(&req) succeeds: the binding tags of RewardRequest
\* (required on the identifiers, required,gt=0 on shares_quantity).
ShouldBindJSON(r) ==
    /\ r.IdempotencyKey # 0 /\ r.UserID # "" /\ r.StockSymbol # ""
    /\ r.SharesQuantity # 0
    /\ r.SharesQuantity > 0

\* The request bodies a client may post, whatever their quantity.
PostedRequests(quantities) ==
    [ IdempotencyKey : AdmissibleKeys, UserID : Users, StockSymbol : Symbols,
      SharesQuantity : quantities, RewardedAt : {ZeroTime} ]

\* The request bodies a client may post with the rewarded_at values given.
PostedRequestsAt(quantities, times) ==
    [ IdempotencyKey : AdmissibleKeys, UserID : Users, StockSymbol : Symbols,
      SharesQuantity : quantities, RewardedAt : times ]

\* handlers.go 37-40: a rewarded_at that is not provided is set to the
\* current time.
WithRewardedAt(r) == [r EXCEPT !.RewardedAt = IF @ = ZeroTime THEN now ELSE @]

\* A handler that hands every body to the service, bound or not.
CreateRewardHandlerUnbound(c, r) == CheckIdempotency(c, r)

\* RewardHandler.CreateReward (handlers.go 25-56): a body that fails the
\* binding is answered 400 and the service is not called; any other body is
\* handed to rewardService.CreateReward.
CreateRewardHandler(c, r) ==
    IF ShouldBindJSON(r)
    THEN CheckIdempotency(c, WithRewardedAt(r))
    ELSE /\ MayArrive(c)
         /\ req' = [req EXCEPT ![c] = r]
         /\ Return(c, Err("Invalid request", "binding"))
         /\ UNCHANGED <<db, holdingWrites, updater, now>>

\* The text of an error database/sql or the driver returns when the store
\* cannot serve a statement.
DriverError == "driver error"

\* The handler has bound the body and rewardRepository
\* .GetRewardEventByIdempotencyKey returns an error (services.go 202-205).
IdempotencyCheckError(c, r) ==
    /\ ShouldBindJSON(r)
    /\ MayArrive(c)
    /\ req' = [req EXCEPT ![c] = WithRewardedAt(r)]
    /\ Return(c, Err("idempotency check failed", DriverError))
    /\ UNCHANGED <<db, holdingWrites, updater, now>>

\* stockRepository.GetStockBySymbol returns an error other than
\* sql.ErrNoRows (services.go 212-215).
GetStockBySymbolError(c) ==
    /\ pc[c] = "stock"
    /\ Return(c, Err("invalid stock symbol", DriverError))
    /\ UNCHANGED <<db, req, holdingWrites, updater, now>>

\* stockRepository.GetLatestStockPrice returns an error other than
\* sql.ErrNoRows (services.go 221-224).
GetLatestStockPriceError(c) ==
    /\ pc[c] = "price"
    /\ Return(c, Err("failed to get stock price", DriverError))
    /\ UNCHANGED <<db, req, holdingWrites, updater, now>>

\* rewardRepository.CreateRewardEvent fails before the statement runs
\* (services.go 257-259): no row, no id drawn.
CreateRewardEventError(c) ==
    /\ pc[c] = "insert"
    /\ Return(c, Err("failed to create reward event", DriverError))
    /\ UNCHANGED <<db, req, holdingWrites, updater, now>>

\* RewardHandler.CreateReward's answer for what the call returned
\* (handlers.go 28-55): status, "error", and "details" as the message
\* CreateReward chose followed by the error it wrapped.
Response(res) ==
    IF res.err = "Invalid request"
    THEN [status |-> 400, error |-> "Invalid request",
          message |-> "", wrapped |-> res.cause]
    ELSE IF res.err # ""
    THEN [status |-> 500, error |-> "Failed to create reward",
          message |-> res.err, wrapped |-> res.cause]
    ELSE [status |-> 201, error |-> "", message |-> "", wrapped |-> ""]

\* A validation that checks existence only, not is_active.
ValidateStockIgnoresActive(c) ==
    /\ pc[c] = "stock"
    /\ LET symbol == req[c].StockSymbol
       IN  IF symbol \notin DOMAIN stocks
           THEN Return(c, Err("invalid stock symbol", "stock not found"))
           ELSE /\ pc' = [pc EXCEPT ![c] = "price"]
                /\ UNCHANGED <<currentPrice, event, holding, result>>
    /\ UNCHANGED <<db, req, holdingWrites, updater, now>>

\* services.go 211-218 with stockRepository.GetStockBySymbol.
ValidateStock(c) ==
    /\ pc[c] = "stock"
    /\ LET symbol == req[c].StockSymbol
       IN  IF symbol \notin DOMAIN stocks
           THEN Return(c, Err("invalid stock symbol", "stock not found"))
           ELSE IF ~stocks[symbol]
           THEN Return(c, Err("stock is not active", ""))
           ELSE /\ pc' = [pc EXCEPT ![c] = "price"]
                /\ UNCHANGED <<currentPrice, event, holding, result>>
    /\ UNCHANGED <<db, req, holdingWrites, updater, now>>

\* A price step that falls back to a price of 100 when none is stored.
GetCurrentPriceFallback(c) ==
    /\ pc[c] = "price"
    /\ LET price == stock_prices[req[c].StockSymbol]
       IN  /\ pc' = [pc EXCEPT ![c] = "insert"]
           /\ currentPrice' = [currentPrice EXCEPT ![c] =
                  FromNumeric4(IF price = NoPrice THEN INR(100) ELSE price)]
           /\ UNCHANGED <<event, holding, result>>
    /\ UNCHANGED <<db, req, holdingWrites, updater, now>>

\* services.go 220-224 with stockPriceService.GetCurrentPrice and
\* stockRepository.GetLatestStockPrice.
GetCurrentPrice(c) ==
    /\ pc[c] = "price"
    /\ LET price == stock_prices[req[c].StockSymbol]
       IN  IF price = NoPrice
           THEN Return(c, Err("failed to get stock price", "no price found"))
           ELSE /\ pc' = [pc EXCEPT ![c] = "insert"]
                /\ currentPrice' = [currentPrice EXCEPT ![c] = FromNumeric4(price)]
                /\ UNCHANGED <<event, holding, result>>
    /\ UNCHANGED <<db, req, holdingWrites, updater, now>>

\* An INSERT ... ON CONFLICT DO NOTHING: a refused insert is not an error and
\* the call goes on to the holdings with the event it built.
CreateRewardEventOnConflictDoNothing(c) ==
    /\ pc[c] = "insert"
    /\ LET id  == reward_events_id + 1
           e   == [NewRewardEvent(req[c], currentPrice[c]) EXCEPT !.ID = id]
           row == RewardEventRow(e, id)
       IN  /\ reward_events_id' = id
           /\ reward_events' = IF RowsWithKey(row.idempotency_key) # {}
                               THEN reward_events
                               ELSE reward_events \cup {row}
           /\ pc' = [pc EXCEPT ![c] = "getHolding"]
           /\ event' = [event EXCEPT ![c] = Ptr(e)]
           /\ UNCHANGED <<currentPrice, holding, result>>
    /\ UNCHANGED <<stocks, stock_prices, user_holdings, ledger_entries, req,
                   holdingWrites, updater, now>>

\* An INSERT ... ON CONFLICT (idempotency_key) DO UPDATE: the row of the key
\* is overwritten by the later call's values.
CreateRewardEventOnConflictUpdate(c) ==
    /\ pc[c] = "insert"
    /\ LET id  == reward_events_id + 1
           e   == [NewRewardEvent(req[c], currentPrice[c]) EXCEPT !.ID = id]
           row == RewardEventRow(e, id)
       IN  /\ reward_events_id' = id
           /\ reward_events' =
                  (reward_events \ RowsWithKey(row.idempotency_key)) \cup {row}
           /\ pc' = [pc EXCEPT ![c] = "getHolding"]
           /\ event' = [event EXCEPT ![c] = Ptr(e)]
           /\ UNCHANGED <<currentPrice, holding, result>>
    /\ UNCHANGED <<stocks, stock_prices, user_holdings, ledger_entries, req,
                   holdingWrites, updater, now>>

\* A CreateReward that treats a refused INSERT like the failures after it:
\* logged, and the call goes on to the holdings with the event it built.
CreateRewardEventErrorLogged(c) ==
    /\ pc[c] = "insert"
    /\ LET id  == reward_events_id + 1
           e   == [NewRewardEvent(req[c], currentPrice[c]) EXCEPT !.ID = id]
           row == RewardEventRow(e, id)
       IN  /\ reward_events_id' = id
           /\ reward_events' =
                  IF RewardCheckViolation(row) THEN reward_events
                  ELSE IF UniqueViolation(row) THEN reward_events
                  ELSE reward_events \cup {row}
           /\ pc' = [pc EXCEPT ![c] = "getHolding"]
           /\ event' = [event EXCEPT ![c] = Ptr(e)]
           /\ UNCHANGED <<currentPrice, holding, result>>
    /\ UNCHANGED <<stocks, stock_prices, user_holdings, ledger_entries, req,
                   holdingWrites, updater, now>>

\* services.go 226-259 with rewardRepository.CreateRewardEvent: the event is
\* built and inserted; the id is drawn from the sequence whether or not the
\* INSERT is accepted.
CreateRewardEvent(c) ==
    /\ pc[c] = "insert"
    /\ LET id  == reward_events_id + 1
           e   == [NewRewardEvent(req[c], currentPrice[c]) EXCEPT !.ID = id]
           row == RewardEventRow(e, id)
       IN  /\ reward_events_id' = id
           /\ IF RewardCheckViolation(row)
              THEN /\ Return(c, Err("failed to create reward event", "check_violation"))
                   /\ UNCHANGED reward_events
              ELSE IF UniqueViolation(row)
              THEN /\ Return(c, Err("failed to create reward event", "unique_violation"))
                   /\ UNCHANGED reward_events
              ELSE /\ reward_events' = reward_events \cup {row}
                   /\ pc' = [pc EXCEPT ![c] = "getHolding"]
                   /\ event' = [event EXCEPT ![c] = Ptr(e)]
                   /\ UNCHANGED <<currentPrice, holding, result>>
    /\ UNCHANGED <<stocks, stock_prices, user_holdings, ledger_entries, req,
                   holdingWrites, updater, now>>

\* services.go 307-312 with rewardRepository.GetUserHolding.
GetUserHolding(c) ==
    /\ pc[c] = "getHolding"
    /\ LET pair == Pair(req[c].UserID, req[c].StockSymbol)
       IN  holding' = [holding EXCEPT ![c] =
                          IF HoldingRows(pair) # {}
                          THEN Ptr(HoldingOf(pair)) ELSE Nil]
    /\ pc' = [pc EXCEPT ![c] = "upsertHolding"]
    /\ UNCHANGED <<db, req, currentPrice, event, result, holdingWrites, updater, now>>

\* An upsert whose conflict target is stock_symbol alone: a row of the symbol,
\* whoever its user, is overwritten.
UpsertUserHoldingOnSymbol(c) ==
    /\ pc[c] = "upsertHolding"
    /\ LET e    == Deref(event[c])
           h    == UpdatedHolding(holding[c], e)
           row  == [ user_id       |-> e.UserID,
                     stock_symbol  |-> e.StockSymbol,
                     total_shares  |-> h.total_shares,
                     average_price |-> h.average_price ]
       IN  /\ user_holdings' =
                  IF \E x \in user_holdings : x.stock_symbol = e.StockSymbol
                  THEN {IF x.stock_symbol = e.StockSymbol
                        THEN [x EXCEPT !.total_shares = row.total_shares,
                                       !.average_price = row.average_price]
                        ELSE x : x \in user_holdings}
                  ELSE user_holdings \cup {row}
           /\ holdingWrites' = [holdingWrites EXCEPT ![e.IdempotencyKey] = @ + 1]
    /\ pc' = [pc EXCEPT ![c] = "ledger"]
    /\ UNCHANGED <<stocks, stock_prices, reward_events, reward_events_id,
                   ledger_entries, req, currentPrice, event, holding, result,
                   updater, now>>

\* services.go 314-331 with rewardRepository.UpsertUserHolding; a refused
\* upsert is logged by CreateReward (services.go 262-265) and the call goes on.
UpsertUserHolding(c) ==
    /\ pc[c] = "upsertHolding"
    /\ LET e    == Deref(event[c])
           pair == Pair(e.UserID, e.StockSymbol)
           h    == UpdatedHolding(holding[c], e)
           row  == [ user_id       |-> e.UserID,
                     stock_symbol  |-> e.StockSymbol,
                     total_shares  |-> h.total_shares,
                     average_price |-> h.average_price ]
       IN  IF HoldingCheckViolation(row)
           THEN UNCHANGED <<user_holdings, holdingWrites>>
           ELSE /\ user_holdings' =
                      IF HoldingConflict(pair)
                      THEN {IF Pair(x.user_id, x.stock_symbol) = pair
                            THEN [x EXCEPT !.total_shares = row.total_shares,
                                           !.average_price = row.average_price]
                            ELSE x : x \in user_holdings}
                      ELSE user_holdings \cup {row}
                /\ holdingWrites' =
                      [holdingWrites EXCEPT ![e.IdempotencyKey] = @ + 1]
    /\ pc' = [pc EXCEPT ![c] = "ledger"]
    /\ UNCHANGED <<stocks, stock_prices, reward_events, reward_events_id,
                   ledger_entries, req, currentPrice, event, holding, result,
                   updater, now>>

\* rewardRepository.GetUserHolding returns an error (a storage fault):
\* updateUserHoldings returns it, CreateReward logs it (services.go 262-265)
\* and goes on to the ledger.
GetUserHoldingError(c) ==
    /\ pc[c] = "getHolding"
    /\ pc' = [pc EXCEPT ![c] = "ledger"]
    /\ UNCHANGED <<db, req, currentPrice, event, holding, result, holdingWrites, updater, now>>

\* rewardRepository.UpsertUserHolding returns an error (a storage fault):
\* nothing is written, the error is logged and the call goes on.
UpsertUserHoldingError(c) ==
    /\ pc[c] = "upsertHolding"
    /\ pc' = [pc EXCEPT ![c] = "ledger"]
    /\ UNCHANGED <<db, req, currentPrice, event, holding, result, holdingWrites, updater, now>>

\* A ledger store without the transaction, over a table whose entry_group_id
\* is text: each row is inserted on its own and stays if it is accepted.
CreateLedgerEntriesAutoCommit(c) ==
    /\ pc[c] = "ledger"
    /\ LET e       == Deref(event[c])
           entries == createLedgerEntries(e)
       IN  /\ ledger_entries' =
                  ledger_entries \o
                      SelectSeq(entries,
                                LAMBDA row : row.debit_amount + row.credit_amount > 0)
           /\ Return(c, Ok(e))
    /\ UNCHANGED <<stocks, stock_prices, reward_events, reward_events_id,
                   user_holdings, req, holdingWrites, updater, now>>

\* A CreateReward that returns the ledger's error to its caller.
CreateLedgerEntriesFatal(c) ==
    /\ pc[c] = "ledger"
    /\ LET e       == Deref(event[c])
           entries == createLedgerEntries(e)
       IN  IF \A i \in 1..Len(entries) : LedgerRowAccepted(entries[i])
           THEN /\ ledger_entries' = ledger_entries \o entries
                /\ Return(c, Ok(e))
           ELSE /\ ledger_entries' = ledger_entries
                /\ Return(c, Err("failed to create ledger entries", "ledger"))
    /\ UNCHANGED <<stocks, stock_prices, reward_events, reward_events_id,
                   user_holdings, req, holdingWrites, updater, now>>

\* services.go 267-276 with ledgerRepository.CreateLedgerEntries: the four
\* rows are inserted in one transaction, rolled back when a row is refused;
\* a failure is logged and the event returned all the same.
CreateLedgerEntries(c) ==
    /\ pc[c] = "ledger"
    /\ LET e       == Deref(event[c])
           entries == createLedgerEntries(e)
       IN  /\ ledger_entries' =
                  IF \A i \in 1..Len(entries) : LedgerRowAccepted(entries[i])
                  THEN ledger_entries \o entries
                  ELSE ledger_entries
           /\ Return(c, Ok(e))
    /\ UNCHANGED <<stocks, stock_prices, reward_events, reward_events_id,
                   user_holdings, req, holdingWrites, updater, now>>

\* ------------------------------------------------------------ environment
\* The symbols updateAllPrices refreshes (services.go 53-56), among Symbols.
ListedSymbols == {"INFY"}

\* updateAllPrices saves one symbol's snapshot (stockRepository.CreateStockPrice);
\* the latest snapshot is the price GetLatestStockPrice returns.
CreateStockPrice(symbol, price) ==
    /\ price > 0
    /\ stock_prices[symbol] # price
    /\ stock_prices' = [stock_prices EXCEPT ![symbol] = price]
    /\ UNCHANGED <<stocks, reward_events, reward_events_id, user_holdings,
                   ledger_entries, pc, req, currentPrice, event, holding,
                   result, holdingWrites, updater, now>>

\* Delisting (ARCHITECTURE.md): stocks.is_active is set to false.
DelistStock(symbol) ==
    /\ symbol \in DOMAIN stocks
    /\ stocks[symbol]
    /\ stocks' = [stocks EXCEPT ![symbol] = FALSE]
    /\ UNCHANGED <<stock_prices, reward_events, reward_events_id, user_holdings,
                   ledger_entries, pc, req, currentPrice, event, holding,
                   result, holdingWrites, updater, now>>

\* ---------------------------------------------------------------- queries
\* time.Date(now.Year(), now.Month(), now.Day(), 0, 0, 0, 0, now.Location())
StartOfDay(t) == t - (t % TicksPerDay)

\* rewardRepository.GetTodayRewards: the events scanned from the rows with
\* user_id = $1 AND rewarded_at >= $2 AND rewarded_at < $3 (as a set: the
\* ORDER BY is not modelled).
GetTodayRewards(userID) ==
    LET startOfDay == StartOfDay(now)
        endOfDay   == startOfDay + TicksPerDay
    IN  {ScanRewardEvent(row) :
            row \in {x \in reward_events :
                        /\ x.user_id = userID
                        /\ x.rewarded_at >= startOfDay
                        /\ x.rewarded_at < endOfDay}}

\* rewardRepository.GetHistoricalRewards: the events scanned from the rows
\* with user_id = $1 AND rewarded_at < $2.
GetHistoricalRewards(userID) ==
    LET startOfToday == StartOfDay(now)
    IN  {ScanRewardEvent(row) :
            row \in {x \in reward_events :
                        x.user_id = userID /\ x.rewarded_at < startOfToday}}

\* Time passes by one tick.
TimePasses ==
    /\ now < EndOfClock
    /\ now' = now + 1
    /\ UNCHANGED <<db, pc, req, currentPrice, event, holding, result,
                   holdingWrites, updater>>

\* ---------------------------------------------------------- price updater
\* generateMockPrice's basePrices, and its default.
BasePrice(symbol) ==
    CASE symbol = "TCS" -> INR(3500)
      [] symbol = "INFY" -> INR(1500)
      [] OTHER -> INR(1000)

\* generateMockPrice: the base price varied by -5% up to +5%, cut to 2
\* decimals; the model draws the lowest value and the base itself.
generateMockPrice(symbol) ==
    {BasePrice(symbol) - BasePrice(symbol) \div 20, BasePrice(symbol)}

\* updateAllPrices is entered: nothing saved or failed yet.
BeginUpdate(u) ==
    [u EXCEPT !.pc = "updating", !.next = 1, !.started = @ + 1,
              !.saved = {}, !.failed = {}]

\* updateAllPrices moves past the symbol at u.next; after the last symbol it
\* returns and the updater waits for ticker.C.
AdvanceUpdate(u) ==
    IF u.next = Len(UpdaterStocks)
    THEN [u EXCEPT !.pc = "waiting", !.next = @ + 1]
    ELSE [u EXCEPT !.next = @ + 1]

\* StartPriceUpdater (services.go 34-47): the ticker is created and
\* updateAllPrices is called at once.
StartPriceUpdater ==
    /\ updater.pc = "off"
    /\ updater' = BeginUpdate(updater)
    /\ UNCHANGED <<db, pc, req, currentPrice, event, holding, result,
                   holdingWrites, now>>

\* An updateAllPrices that gives up at the first snapshot it cannot save.
UpdateStockPriceErrorAborts ==
    /\ updater.pc = "updating"
    /\ updater' = [updater EXCEPT !.pc = "waiting",
                                  !.next = Len(UpdaterStocks) + 1,
                                  !.failed = @ \cup {UpdaterStocks[updater.next]}]
    /\ UNCHANGED <<db, pc, req, currentPrice, event, holding, result,
                   holdingWrites, now>>

\* updateAllPrices, one turn of its loop (services.go 61-76) in which
\* CreateStockPrice stores the snapshot.
UpdateStockPrice(price) ==
    /\ updater.pc = "updating"
    /\ LET symbol == UpdaterStocks[updater.next]
       IN  /\ price \in generateMockPrice(symbol)
           /\ stock_prices' = [stock_prices EXCEPT ![symbol] = price]
           /\ updater' = AdvanceUpdate([updater EXCEPT !.saved = @ \cup {symbol}])
    /\ UNCHANGED <<stocks, reward_events, reward_events_id, user_holdings,
                   ledger_entries, pc, req, currentPrice, event, holding,
                   result, holdingWrites, now>>

\* The same turn with CreateStockPrice returning an error: it is logged and
\* the loop goes on to the next symbol (services.go 71-73).
UpdateStockPriceError ==
    /\ updater.pc = "updating"
    /\ updater' = AdvanceUpdate([updater EXCEPT
                      !.failed = @ \cup {UpdaterStocks[updater.next]}])
    /\ UNCHANGED <<db, pc, req, currentPrice, event, holding, result,
                   holdingWrites, now>>

\* The ticker delivers a tick into ticker.C; with a tick still waiting there
\* it delivers none (time.Ticker drops ticks for a slow receiver).
Tick ==
    /\ updater.pc # "off"
    /\ updater.C = 0
    /\ updater.delivered < MaxTicks
    /\ updater' = [updater EXCEPT !.C = 1, !.delivered = @ + 1]
    /\ UNCHANGED <<db, pc, req, currentPrice, event, holding, result,
                   holdingWrites, now>>

\* The goroutine's for range ticker.C receives a tick and calls
\* updateAllPrices (services.go 40-44).
ReceiveTick ==
    /\ updater.pc = "waiting"
    /\ updater.C = 1
    /\ updater' = BeginUpdate([updater EXCEPT !.C = 0])
    /\ UNCHANGED <<db, pc, req, currentPrice, event, holding, result,
                   holdingWrites, now>>

\* The server takes requests once StartPriceUpdater has returned, that is
\* once the first call of updateAllPrices is over (main.go 73).
Serving == IF updater.pc = "waiting" THEN TRUE ELSE updater.started > 1

Step(c) ==
    \/ ValidateStock(c)
    \/ GetCurrentPrice(c)
    \/ CreateRewardEvent(c)
    \/ GetUserHolding(c)
    \/ UpsertUserHolding(c)
    \/ CreateLedgerEntries(c)

\* Concurrent request handling: any call may take its next step at any time.
Next ==
    \/ \E c \in Calls : \E r \in Requests(Quantities) : CheckIdempotency(c, r)
    \/ \E c \in Calls : Step(c)
    \/ \E s \in ListedSymbols : \E p \in Prices : CreateStockPrice(s, p)
    \/ \E s \in Symbols : DelistStock(s)

Spec == Init /\ [][Next]_vars

\* One-at-a-time request handling: a call arrives only when no other call is
\* running, so that no two executions of CreateReward overlap.
NextSeq ==
    \/ \E c \in Calls : \E r \in Requests(QuantitiesSeq) :
          InFlight = {} /\ CheckIdempotency(c, r)
    \/ \E c \in Calls : Step(c)
    \/ \E s \in ListedSymbols : \E p \in PricesSeq : CreateStockPrice(s, p)
    \/ \E s \in Symbols : DelistStock(s)

SpecSeq == Init /\ [][NextSeq]_vars

\* Requests as they reach the HTTP handler, well-formed or not, handled
\* concurrently.
NextHandler ==
    \/ \E c \in Calls : \E r \in PostedRequests(QuantitiesPosted) :
          CreateRewardHandler(c, r)
    \/ \E c \in Calls : Step(c)
    \/ \E s \in ListedSymbols : \E p \in Prices : CreateStockPrice(s, p)
    \/ \E s \in Symbols : DelistStock(s)

SpecHandler == Init /\ [][NextHandler]_vars

\* Storage faults in the holdings statements.
StepFault(c) ==
    \/ GetUserHoldingError(c)
    \/ UpsertUserHoldingError(c)

\* Concurrent request handling over a store whose holdings statements may fail.
NextFault ==
    \/ \E c \in Calls : \E r \in Requests(QuantitiesFault) : CheckIdempotency(c, r)
    \/ \E c \in Calls : Step(c)
    \/ \E c \in Calls : StepFault(c)
    \/ \E s \in ListedSymbols : \E p \in Prices : CreateStockPrice(s, p)
    \/ \E s \in Symbols : DelistStock(s)

SpecFault == Init /\ [][NextFault]_vars

\* One-at-a-time request handling over a wide range of amounts.
NextAmounts ==
    \/ \E c \in Calls : \E r \in Requests(QuantitiesAmounts) :
          InFlight = {} /\ CheckIdempotency(c, r)
    \/ \E c \in Calls : Step(c)
    \/ \E s \in ListedSymbols : \E p \in PricesAmounts : CreateStockPrice(s, p)
    \/ \E s \in Symbols : DelistStock(s)

SpecAmounts == Init /\ [][NextAmounts]_vars

\* Concurrent request handling with grants for two users.
NextPairs ==
    \/ \E c \in Calls : \E r \in RequestsOf(UsersPairs, QuantitiesPairs) :
          CheckIdempotency(c, r)
    \/ \E c \in Calls : Step(c)
    \/ \E s \in ListedSymbols : \E p \in PricesPairs : CreateStockPrice(s, p)
    \/ \E s \in Symbols : DelistStock(s)

SpecPairs == Init /\ [][NextPairs]_vars

\* Storage faults in the statements before and at the INSERT.
StepError(c) ==
    \/ GetStockBySymbolError(c)
    \/ GetLatestStockPriceError(c)
    \/ CreateRewardEventError(c)

\* Requests as they reach the HTTP handler, over a store any statement of
\* which may fail.
NextErrors ==
    \/ \E c \in Calls : \E r \in PostedRequests(QuantitiesErrors) :
          CreateRewardHandler(c, r)
    \/ \E c \in Calls : \E r \in PostedRequests(QuantitiesErrors) :
          IdempotencyCheckError(c, r)
    \/ \E c \in Calls : Step(c)
    \/ \E c \in Calls : StepError(c)
    \/ \E s \in ListedSymbols : \E p \in Prices : CreateStockPrice(s, p)
    \/ \E s \in Symbols : DelistStock(s)

SpecErrors == Init /\ [][NextErrors]_vars

\* The price updater, with grants handled one at a time from the prices it
\* stores.
NextUpdater ==
    \/ StartPriceUpdater
    \/ \E p \in generateMockPrice("TCS") \cup generateMockPrice("INFY") :
          UpdateStockPrice(p)
    \/ UpdateStockPriceError
    \/ Tick
    \/ ReceiveTick
    \/ \E c \in Calls : \E r \in Requests(QuantitiesFault) :
          InFlight = {} /\ Serving /\ CheckIdempotency(c, r)
    \/ \E c \in Calls : Step(c)

SpecUpdater == Init /\ [][NextUpdater]_vars

\* Requests with caller-supplied rewarded_at handled one at a time, while
\* time passes.
NextQueries ==
    \/ \E c \in Calls : \E r \in PostedRequestsAt(QuantitiesFault, TimesPosted) :
          InFlight = {} /\ CreateRewardHandler(c, r)
    \/ \E c \in Calls : Step(c)
    \/ \E s \in ListedSymbols : \E p \in PricesPairs : CreateStockPrice(s, p)
    \/ TimePasses

SpecQueries == Init /\ [][NextQueries]_vars

\* ================================================================ claims
Done(c) == pc[c] = "done"
KeyOf(c) == req[c].IdempotencyKey
ReturnedRecord(c) == Done(c) /\ result[c].event # Nil
StoredRecord(key) == CHOOSE row \in RowsWithKey(key) : TRUE
TablesUnchanged ==
    /\ reward_events' = reward_events
    /\ user_holdings' = user_holdings
    /\ ledger_entries' = ledger_entries
\* Call c arrives in this step (its idempotency lookup runs) with key k.
Arrives(c, k) == pc[c] = "idle" /\ pc'[c] # "idle" /\ req'[c].IdempotencyKey = k

\* C1: in every reachable state there is at most one reward_events row per
\* idempotency key, and a key for which some call has returned a record has
\* exactly one row.
C1_OneRecordPerKey ==
    /\ \A k \in Keys : Cardinality(RowsWithKey(k)) <= 1
    /\ \A c \in Calls : ReturnedRecord(c) => Cardinality(RowsWithKey(KeyOf(c))) = 1

\* Two calls with one key ran concurrently (one lost the insert race), one
\* returned a record, and a later call with that key has returned too.
C1_Witness ==
    \E c, d, e \in Calls :
        /\ c # d /\ d # e /\ c # e
        /\ KeyOf(c) = KeyOf(d) /\ KeyOf(d) = KeyOf(e)
        /\ ReturnedRecord(c) /\ ReturnedRecord(e)
        /\ Done(d) /\ result[d].cause = "unique_violation"

\* C2: a call whose INSERT hits the uniqueness violation (it passed the
\* lookup while the winner had not inserted yet) returns the persisted record
\* of its key, not an error.
C2_RaceLoserGetsRecord ==
    \A c \in Calls :
        (Done(c) /\ result[c].cause = "unique_violation") =>
            /\ result[c].err = ""
            /\ result[c].event = GetRewardEventByIdempotencyKey(KeyOf(c))

\* C3: when the only two grants for a pair, 2 shares at 100 and 3 shares at
\* 200, have both completed, whatever their interleaving, the position holds
\* 5 shares at an average of 160.
C3_NoLostUpdate ==
    \A c, d \in Calls :
        LET pair == Pair(req[c].UserID, req[c].StockSymbol)
        IN  ( /\ c # d
              /\ ReturnedRecord(c) /\ ReturnedRecord(d)
              /\ Deref(result[c].event).SharesQuantity = Shares(2)
              /\ Deref(result[c].event).PricePerShare = FromNumeric4(INR(100))
              /\ Deref(result[d].event).SharesQuantity = Shares(3)
              /\ Deref(result[d].event).PricePerShare = FromNumeric4(INR(200))
              /\ Pair(req[d].UserID, req[d].StockSymbol) = pair
              /\ {row.id : row \in {r \in reward_events : Pair(r.user_id, r.stock_symbol) = pair}}
                    = {Deref(result[c].event).ID, Deref(result[d].event).ID}
              /\ InFlight = {} )
            => /\ pair \in HoldingPairs
               /\ HoldingOf(pair) =
                     [total_shares |-> Shares(5), average_price |-> INR(160)]

\* C4: a call that arrives when a record for its key is already stored
\* returns at once, without error, exactly that stored record.
C4_ReplayReturnsStored ==
    [][ \A c \in Calls : \A k \in Keys :
          (Arrives(c, k) /\ RowsWithKey(k) # {}) =>
             /\ pc'[c] = "done"
             /\ result'[c].err = ""
             /\ result'[c].event # Nil
             /\ RewardEventRow(Deref(result'[c].event), Deref(result'[c].event).ID)
                   = StoredRecord(k)
             /\ RowsWithKey(k)' = {StoredRecord(k)} ]_vars

\* Two replays of one key have returned the record the first call created.
C4_Witness ==
    \E c, d, e \in Calls :
        /\ c < d /\ d < e
        /\ KeyOf(c) = KeyOf(d) /\ KeyOf(d) = KeyOf(e)
        /\ ReturnedRecord(c) /\ ReturnedRecord(d) /\ ReturnedRecord(e)
        /\ Deref(result[d].event).ID = Deref(result[c].event).ID
        /\ Deref(result[e].event).ID = Deref(result[c].event).ID

\* C5: the step of a replayed call (its key has a stored record when it
\* arrives) changes no table: no reward_events row is added or modified, no
\* user_holdings row is changed, no ledger_entries row is written; and the
\* call is over with that step.
C5_ReplayChangesNothing ==
    [][ \A c \in Calls : \A k \in Keys :
          (Arrives(c, k) /\ RowsWithKey(k) # {}) =>
             /\ TablesUnchanged
             /\ holdingWrites' = holdingWrites
             /\ pc'[c] = "done" ]_vars

\* A replay has returned while the pair has a position built by the original.
C5_Witness ==
    \E c, d \in Calls :
        /\ c < d /\ KeyOf(c) = KeyOf(d)
        /\ ReturnedRecord(c) /\ ReturnedRecord(d)
        /\ Deref(result[d].event).ID = Deref(result[c].event).ID
        /\ holdingWrites[KeyOf(c)] = 1
        /\ Pair(req[c].UserID, req[c].StockSymbol) \in HoldingPairs

\* Posting groups written for key k.
PostingGroups(k) ==
    {ledger_entries[i].entry_group_id :
        i \in {j \in 1..Len(ledger_entries) :
                 \E row \in RowsWithKey(k) : row.id = ledger_entries[j].reward_event_id}}

\* C6: for every key, whatever the retries and concurrent calls that carry
\* it, the holdings upsert has run at most once and at most one posting group
\* has been written.
C6_AtMostOnceEffect ==
    \A k \in Keys :
        /\ holdingWrites[k] <= 1
        /\ Cardinality(PostingGroups(k)) <= 1

\* Three calls with one key, two of them concurrent, are over and the
\* holding has been written once for the key.
C6_Witness ==
    \E c, d, e \in Calls :
        /\ c # d /\ d # e /\ c # e
        /\ KeyOf(c) = KeyOf(d) /\ KeyOf(d) = KeyOf(e)
        /\ Done(c) /\ Done(d) /\ Done(e)
        /\ result[d].cause = "unique_violation"
        /\ holdingWrites[KeyOf(c)] = 1

RowsOfPair(pair) == {row \in reward_events : Pair(row.user_id, row.stock_symbol) = pair}

\* The sum of the quantities of rows, and the sum of quantity x price.
RECURSIVE SumQuantity(_)
SumQuantity(rows) ==
    IF rows = {} THEN 0
    ELSE LET row == CHOOSE x \in rows : TRUE
         IN  row.shares_quantity + SumQuantity(rows \ {row})

RECURSIVE SumCost(_)
SumCost(rows) ==
    IF rows = {} THEN 0
    ELSE LET row == CHOOSE x \in rows : TRUE
         IN  row.shares_quantity * row.price_per_share + SumCost(rows \ {row})

\* C7: when grants are handled one at a time and none is running, a pair
\* with grants (q1,p1)..(qn,pn) has a position with total_shares = sum(qi)
\* and average_price within rounding tolerance of sum(qi*pi)/sum(qi): half a
\* unit of the column's last digit for each weighted-average update.  The
\* bound depends on the grants only, not on the order they arrived in.
C7_WeightedAverageOfGrants ==
    InFlight = {} =>
        \A pair \in Users \X Symbols :
            LET rows == RowsOfPair(pair)
                n    == Cardinality(rows)
                Q    == SumQuantity(rows)
            IN  IF rows = {}
                THEN pair \notin HoldingPairs
                ELSE /\ pair \in HoldingPairs
                     /\ HoldingOf(pair).total_shares = Q
                     /\ 2 * Abs(HoldingOf(pair).average_price * Q - SumCost(rows))
                           <= (n - 1) * Q

\* Three grants of different quantities and prices have been applied to one
\* pair, and the stored average is a rounded one.
C7_Witness ==
    /\ InFlight = {}
    /\ \E pair \in HoldingPairs :
          LET rows == RowsOfPair(pair)
          IN  /\ Cardinality(rows) = 3
              /\ Cardinality({row.price_per_share : row \in rows}) = 3
              /\ Cardinality({row.shares_quantity : row \in rows}) >= 2
              /\ HoldingOf(pair).average_price * SumQuantity(rows) # SumCost(rows)

\* The holdings step of call c: with no position for the pair it creates one
\* with the grant's quantity and price; otherwise total_shares grows by the
\* quantity and average_price is (old x oldAverage + q x p) / (old + q),
\* rounded to the column's last digit.
HoldingsStepCorrect(c) ==
    LET e    == Deref(event[c])
        pair == Pair(e.UserID, e.StockSymbol)
        q    == e.SharesQuantity
        p    == ToNumeric4(e.PricePerShare)
    IN  /\ pair \in HoldingPairs'
        /\ IF pair \notin HoldingPairs
           THEN HoldingOf(pair)' = [total_shares |-> q, average_price |-> p]
           ELSE LET old == HoldingOf(pair)
                    new == HoldingOf(pair)'
                IN  /\ new.total_shares = old.total_shares + q
                    /\ 2 * Abs(new.average_price * new.total_shares
                                 - (old.total_shares * old.average_price + q * p))
                          <= new.total_shares

\* 5 shares at 1500 followed by 3 shares at 1600, and nothing else, for a pair.
FiveThenThree(pair) ==
    \E r1, r2 \in RowsOfPair(pair) :
        /\ RowsOfPair(pair) = {r1, r2}
        /\ r1.id < r2.id
        /\ r1.shares_quantity = Shares(5) /\ r1.price_per_share = INR(1500)
        /\ r2.shares_quantity = Shares(3) /\ r2.price_per_share = INR(1600)

\* C8: every holdings step of a call that does not overlap another is
\* correct in the sense of HoldingsStepCorrect, and 5 shares at 1500 followed
\* by 3 shares at 1600 give 8 shares at an average of 1537.50.
C8_HoldingsUpdate ==
    /\ [][ \A c \in Calls :
             (pc[c] = "upsertHolding" /\ pc'[c] = "ledger") => HoldingsStepCorrect(c) ]_vars
    /\ [](\A pair \in Users \X Symbols :
             (InFlight = {} /\ FiveThenThree(pair)) =>
                 /\ pair \in HoldingPairs
                 /\ HoldingOf(pair) =
                       [total_shares |-> Shares(8), average_price |-> 15375000])

\* The example has run: 5 at 1500, then 3 at 1600, both applied.
C8_Witness ==
    /\ InFlight = {}
    /\ \E pair \in HoldingPairs :
          /\ FiveThenThree(pair)
          /\ HoldingOf(pair).total_shares = Shares(8)

\* The stocks row CreateReward's validation asks for: present and is_active.
Tradable(symbol) == IF symbol \in DOMAIN stocks THEN stocks[symbol] ELSE FALSE

\* C9: a call whose key has no record and whose symbol is unknown or not
\* active when validated ends at validation with an error and no event, and
\* neither its arrival nor its validation step changes reward_events,
\* user_holdings or ledger_entries.
C9_InvalidInstrumentFails ==
    [][ \A c \in Calls :
          /\ (pc[c] = "idle" /\ pc'[c] = "stock") => TablesUnchanged
          /\ (pc[c] = "stock" /\ pc'[c] # "stock" /\ ~Tradable(req[c].StockSymbol)) =>
                /\ pc'[c] = "done"
                /\ result'[c].err \in {"invalid stock symbol", "stock is not active"}
                /\ result'[c].event = Nil
                /\ TablesUnchanged
                /\ holdingWrites' = holdingWrites ]_vars

\* One call has failed on an unknown symbol and another on a delisted one,
\* and neither key has a record.
C9_Witness ==
    \E c, d \in Calls :
        /\ Done(c) /\ result[c].err = "invalid stock symbol"
        /\ Done(d) /\ result[d].err = "stock is not active"
        /\ RowsWithKey(KeyOf(c)) = {} /\ RowsWithKey(KeyOf(d)) = {}

\* Some call with key k has failed for want of a price.
PriceFailed(k) ==
    \E c \in Calls :
        Done(c) /\ KeyOf(c) = k /\ result[c].err = "failed to get stock price"

\* C10: a call whose key has no record and whose symbol has no stored price
\* ends at the price step with an error and no event; its arrival, validation
\* and price steps change no table and draw no id; and a call that arrives
\* with the key of such a failed call, while the key still has no record, is
\* not answered as a replay but goes on to validation as a new grant.
C10_NoPriceFailsBeforePersistence ==
    [][ \A c \in Calls :
          /\ (pc'[c] # pc[c] /\ pc'[c] \in {"stock", "price"}) =>
                (TablesUnchanged /\ reward_events_id' = reward_events_id)
          /\ (pc[c] = "price" /\ pc'[c] # "price"
                 /\ stock_prices[req[c].StockSymbol] = NoPrice) =>
                /\ pc'[c] = "done"
                /\ result'[c].err = "failed to get stock price"
                /\ result'[c].event = Nil
                /\ TablesUnchanged
                /\ reward_events_id' = reward_events_id
                /\ holdingWrites' = holdingWrites
          /\ \A k \in Keys :
                (Arrives(c, k) /\ PriceFailed(k) /\ RowsWithKey(k) = {}) =>
                    pc'[c] = "stock" ]_vars

\* A call failed for want of a price, and a later call with the same key has
\* returned a record and written the holding.
C10_Witness ==
    \E c, d \in Calls :
        /\ c < d /\ KeyOf(c) = KeyOf(d)
        /\ Done(c) /\ result[c].err = "failed to get stock price"
        /\ ReturnedRecord(d)
        /\ holdingWrites[KeyOf(d)] = 1

RowOfCall(c) == RewardEventRow(Deref(event[c]), Deref(event[c]).ID)
AfterInsert == {"getHolding", "upsertHolding", "ledger"}

\* C12: a call that has inserted its record keeps going whatever happens to
\* the holdings update and the ledger posting: the row stays in reward_events
\* as inserted, no step after the INSERT ends the call with an error, and the
\* call returns, without error, the event it inserted.
C12_PostPersistenceFailureIsSuccess ==
    /\ [](\A c \in Calls : pc[c] \in AfterInsert => RowOfCall(c) \in reward_events)
    /\ [][ \A c \in Calls :
             (pc[c] \in AfterInsert /\ pc'[c] # pc[c]) =>
                /\ RowOfCall(c) \in reward_events'
                /\ pc'[c] \in AfterInsert \cup {"done"}
                /\ pc'[c] = "done" =>
                      /\ result'[c].err = ""
                      /\ result'[c].event = event[c] ]_vars

\* A call has returned its record although its holdings update failed and
\* its ledger posting was refused; the record is in storage.
C12_Witness ==
    \E c \in Calls :
        /\ ReturnedRecord(c)
        /\ RewardEventRow(Deref(result[c].event), Deref(result[c].event).ID)
              \in reward_events
        /\ holdingWrites[KeyOf(c)] = 0
        /\ Pair(req[c].UserID, req[c].StockSymbol) \notin HoldingPairs
        /\ PostingGroups(KeyOf(c)) = {}

RECURSIVE SumDebit(_)
SumDebit(entries) ==
    IF entries = <<>> THEN 0
    ELSE Head(entries).debit_amount + SumDebit(Tail(entries))

RECURSIVE SumCredit(_)
SumCredit(entries) ==
    IF entries = <<>> THEN 0
    ELSE Head(entries).credit_amount + SumCredit(Tail(entries))

\* The rows of ledger_entries under group id g, in insertion order.
LedgerGroup(g) == SelectSeq(ledger_entries, LAMBDA row : row.entry_group_id = g)

\* entries is a balanced group of two debit/credit pairs for record row: the
\* first pair carries its total_value, the second its total_fees.
TwoBalancedPairs(entries, row) ==
    /\ SumDebit(entries) = SumCredit(entries)
    /\ Len(entries) = 4
    /\ \A i \in 1..Len(entries) : entries[i].reward_event_id = row.id
    /\ entries[1].debit_amount = row.total_value /\ entries[1].credit_amount = 0
    /\ entries[2].credit_amount = row.total_value /\ entries[2].debit_amount = 0
    /\ entries[3].debit_amount = row.total_fees /\ entries[3].credit_amount = 0
    /\ entries[4].credit_amount = row.total_fees /\ entries[4].debit_amount = 0

DebitXorCredit(row) ==
    IF row.debit_amount > 0 THEN row.credit_amount = 0
    ELSE row.debit_amount = 0 /\ row.credit_amount > 0

\* C14: every posting built for a grant whose record was accepted has exactly
\* one of debit_amount and credit_amount strictly positive and the other
\* zero, however small the grant.
C14_PostingsDebitXorCredit ==
    \A c \in Calls :
        pc[c] = "ledger" =>
            LET entries == createLedgerEntries(Deref(event[c]))
            IN  \A i \in 1..Len(entries) : DebitXorCredit(entries[i])

\* The rows of ledger_entries that reference reward_events row id.
PostingsOf(id) == SelectSeq(ledger_entries, LAMBDA row : row.reward_event_id = id)

\* C15: once a call has returned the record of its key, ledger_entries holds
\* exactly four rows for that record, under one group id: debit
\* stock_inventory (with the symbol) and credit cash_outflow of total_value,
\* debit fees_expense and credit cash_outflow of total_fees.
C15_FourPostingsStored ==
    \A c \in Calls :
        ReturnedRecord(c) =>
            LET row     == StoredRecord(KeyOf(c))
                entries == PostingsOf(row.id)
            IN  /\ TwoBalancedPairs(entries, row)
                /\ \A i \in 1..Len(entries) :
                      entries[i].entry_group_id = entries[1].entry_group_id
                /\ entries[1].account_type = "stock_inventory"
                /\ entries[1].stock_symbol = row.stock_symbol
                /\ entries[2].account_type = "cash_outflow"
                /\ entries[3].account_type = "fees_expense"
                /\ entries[4].account_type = "cash_outflow"

\* The shares held for a pair: 0 when user_holdings has no row for it.
Held(pair) == IF pair \in HoldingPairs THEN HoldingOf(pair).total_shares ELSE 0

C17_TotalFeesIsSumOfRounded ==
    \A c \in Calls :
        event[c] # Nil =>
            LET e == Deref(event[c])
            IN  e.TotalFees =
                    e.BrokerageFee + e.STTFee + e.GSTFee + e.ExchangeFee + e.SEBIFee

\* Call c has built the event of a grant of 2.5 shares at 3500.0000.
TwoAndAHalfAt3500(c) ==
    /\ event[c] # Nil
    /\ 2 * Deref(event[c]).SharesQuantity = 5 * QtyScale
    /\ Deref(event[c]).PricePerShare = FromNumeric4(INR(3500))

\* The components the example shares with the code, in units of 0.0001.
ExampleComponents(row) ==
    /\ row.total_value = 87500000
    /\ row.brokerage_fee = 43750
    /\ row.stt_fee = 218750
    /\ row.exchange_fee = 26250
    /\ row.sebi_fee = 8750
    /\ row.gst_fee = 7875

C19_RecordArithmetic ==
    \A row \in reward_events :
        /\ row.total_value =
              RoundHalfAway(row.shares_quantity * row.price_per_share, QtyScale)
        /\ row.total_cost = row.total_value + row.total_fees
        /\ row.total_fees =
              ToNumeric4(calculateFees(FromNumeric4(row.total_value)).Total)

\* What does hold of every row: total_value and total_cost as above, and
\* total_fees = the total calculateFees gives for the unrounded product.
RecordArithmeticUnrounded ==
    \A row \in reward_events :
        /\ row.total_value =
              RoundHalfAway(row.shares_quantity * row.price_per_share, QtyScale)
        /\ row.total_cost = row.total_value + row.total_fees
        /\ row.total_fees =
              ToNumeric4(calculateFees(Product(row.shares_quantity,
                                               FromNumeric4(row.price_per_share))).Total)

\* C20: no step of the system (arrivals and replays, inserts for any key,
\* holdings updates, ledger postings, price refreshes, delisting) removes a
\* reward_events row or changes any of its fields: every row present before
\* a step is present, identical, after it.
C20_RecordsImmutable ==
    [][ \A row \in reward_events : row \in reward_events' ]_vars

\* A record was persisted and the system went on: a second record exists, a
\* replay of the first key has returned, a call lost the insert race, the
\* holding was updated and the price has moved away from the first record's.
C20_Witness ==
    \E c, d \in Calls : \E row \in reward_events :
        /\ row.id = 1
        /\ Cardinality(reward_events) = 2
        /\ c # d /\ KeyOf(c) = row.idempotency_key /\ KeyOf(d) = row.idempotency_key
        /\ ReturnedRecord(c) /\ Done(d)
        /\ holdingWrites[row.idempotency_key] = 1
        /\ stock_prices[row.stock_symbol] # row.price_per_share

\* The keys whose record is a grant for pair.
KeysOfPair(pair) == {row.idempotency_key : row \in RowsOfPair(pair)}

\* C21: in every reachable state user_holdings has at most one row per
\* (user_id, stock_symbol), also when the first grants of a pair run
\* concurrently; a pair has a row exactly when the holdings upsert of some
\* grant for it has succeeded; and no step removes the row of a pair.
C21_OnePositionPerPair ==
    /\ [](\A pair \in Users \X Symbols :
             /\ Cardinality(HoldingRows(pair)) <= 1
             /\ pair \in HoldingPairs <=>
                    \E k \in KeysOfPair(pair) : holdingWrites[k] >= 1)
    /\ [][ \A pair \in HoldingPairs : pair \in HoldingPairs' ]_vars

\* The first two grants of a pair ran concurrently: both found no position,
\* both upserts succeeded, and the pair has its row; and a third grant, whose
\* holdings step failed, left it in place.
C21_Witness ==
    \E c, d, e \in Calls :
        /\ c # d /\ KeyOf(c) # KeyOf(d) /\ KeyOf(e) \notin {KeyOf(c), KeyOf(d)}
        /\ pc[c] = "ledger" /\ holding[c] = Nil /\ holdingWrites[KeyOf(c)] = 1
        /\ ReturnedRecord(d) /\ holdingWrites[KeyOf(d)] = 1
        /\ ReturnedRecord(e) /\ holdingWrites[KeyOf(e)] = 0
        /\ HoldingRows(Pair(req[c].UserID, req[c].StockSymbol)) # {}
        /\ HoldingOf(Pair(req[c].UserID, req[c].StockSymbol)).total_shares
              = req[c].SharesQuantity

\* C22: within one grant the durable effects come in order.  A call enters
\* the holdings statements only from the INSERT, by the step that puts its
\* row into reward_events, and that step touches neither user_holdings nor
\* ledger_entries; it reaches the ledger statement only from the holdings
\* statements; a step that changes user_holdings or counts a holdings write
\* is the upsert of a call whose row is already in reward_events; a step
\* that ends a call with its new event is its ledger statement.  In every
\* state a key with a holdings write has its record, and every
\* ledger_entries row references a reward_events row.
C22_DurableEffectsInOrder ==
    /\ [][ \A c \in Calls :
             /\ (pc'[c] # pc[c] /\ pc'[c] = "getHolding") =>
                    /\ pc[c] = "insert"
                    /\ reward_events' = reward_events \cup {RowOfCall(c)'}
                    /\ RowOfCall(c)' \notin reward_events
                    /\ user_holdings' = user_holdings
                    /\ ledger_entries' = ledger_entries
             /\ (pc'[c] # pc[c] /\ pc'[c] = "upsertHolding") => pc[c] = "getHolding"
             /\ (pc'[c] # pc[c] /\ pc'[c] = "ledger") =>
                    pc[c] \in {"getHolding", "upsertHolding"}
             /\ (pc'[c] # pc[c] /\ pc[c] \in {"upsertHolding", "ledger"}) =>
                    /\ RowOfCall(c) \in reward_events
                    /\ reward_events' = reward_events
             /\ (pc[c] = "insert" /\ pc'[c] = "done") =>
                    (result'[c].err # "" /\ TablesUnchanged) ]_vars
    /\ [][ (user_holdings' # user_holdings \/ holdingWrites' # holdingWrites) =>
             \E c \in Calls :
                 /\ pc[c] = "upsertHolding" /\ pc'[c] = "ledger"
                 /\ RowOfCall(c) \in reward_events
                 /\ ledger_entries' = ledger_entries ]_vars
    /\ [][ ledger_entries' # ledger_entries =>
             \E c \in Calls :
                 /\ pc[c] = "ledger" /\ pc'[c] = "done"
                 /\ RowOfCall(c) \in reward_events
                 /\ user_holdings' = user_holdings ]_vars
    /\ [](/\ \A k \in Keys : holdingWrites[k] >= 1 => RowsWithKey(k) # {}
          /\ \A i \in 1..Len(ledger_entries) :
                \E row \in reward_events : row.id = ledger_entries[i].reward_event_id)

\* One grant has gone through the INSERT, the upsert and the ledger statement
\* and returned; another has its record stored and its holdings write still
\* to come; a third lost the INSERT and wrote nothing.
C22_Witness ==
    \E c, d, e \in Calls :
        /\ ReturnedRecord(c) /\ holdingWrites[KeyOf(c)] = 1
        /\ RowsWithKey(KeyOf(c)) # {}
        /\ pc[d] = "upsertHolding" /\ RowOfCall(d) \in reward_events
        /\ holdingWrites[KeyOf(d)] = 0
        /\ Done(e) /\ result[e].cause = "unique_violation"

PairOfCall(c) == Pair(req[c].UserID, req[c].StockSymbol)

\* C23: every step of a grant for pair (u, s), whatever other grants are
\* running, leaves the user_holdings rows of every other pair as they were;
\* and when a pair has one grant only and no call is running, its position
\* is that grant's quantity at that grant's price, whatever happened to the
\* other pairs meanwhile.
C23_OtherPairsUnchanged ==
    /\ [][ \A c \in Calls :
             pc'[c] # pc[c] =>
                \A pair \in UsersPairs \X Symbols :
                    pair # PairOfCall(c)' =>
                        HoldingRows(pair)' = HoldingRows(pair) ]_vars
    /\ [](InFlight = {} =>
             \A pair \in UsersPairs \X Symbols :
                 \A row \in RowsOfPair(pair) :
                     RowsOfPair(pair) = {row} =>
                         /\ pair \in HoldingPairs
                         /\ HoldingOf(pair) =
                               [ total_shares  |-> row.shares_quantity,
                                 average_price |-> row.price_per_share ])

\* Grants of different quantities for two pairs ran concurrently: each found
\* no position, both upserts are done, and each pair holds its own grant.
C23_Witness ==
    \E c, d \in Calls :
        /\ PairOfCall(c) # PairOfCall(d)
        /\ pc[c] = "ledger" /\ pc[d] = "ledger"
        /\ holding[c] = Nil /\ holding[d] = Nil
        /\ PairOfCall(c) \in HoldingPairs /\ PairOfCall(d) \in HoldingPairs
        /\ HoldingOf(PairOfCall(c)).total_shares = RowOfCall(c).shares_quantity
        /\ HoldingOf(PairOfCall(d)).total_shares = RowOfCall(d).shares_quantity
        /\ RowOfCall(c).shares_quantity # RowOfCall(d).shares_quantity

Failed(c) == Done(c) /\ result[c].err # ""

\* The kind of the failure call c ended with, by the statement that failed:
\* the binding, an instrument that is absent or inactive (the caller must
\* change the request); or the store or the price (the caller should retry).
FailureKind(c) ==
    IF result[c].cause = "binding" THEN "validation"
    ELSE IF result[c].cause = "stock not found" THEN "validation"
    ELSE IF result[c].err = "stock is not active" THEN "validation"
    ELSE "transient"

\* What the answer says of the failure in the program's own words: the
\* status, the handler's error and the message CreateReward chose.
Outcome(c) ==
    [ status  |-> Response(result[c]).status,
      error   |-> Response(result[c]).error,
      message |-> Response(result[c]).message ]

\* C24: the answer to a failed grant tells a validation failure from a
\* transient one: no two failed calls of different kinds are answered with
\* the same status, error and message, and a validation failure is not
\* answered with a server-error status.
C24_ErrorsDistinguishKinds ==
    /\ \A c, d \in Calls :
          (Failed(c) /\ Failed(d) /\ FailureKind(c) # FailureKind(d)) =>
              Outcome(c) # Outcome(d)
    /\ \A c \in Calls :
          (Failed(c) /\ FailureKind(c) = "validation") =>
              Response(result[c]).status < 500

\* The five fee components of event e, as calculateFees rounded them.
FeeComponents(e) == {e.BrokerageFee, e.STTFee, e.GSTFee, e.ExchangeFee, e.SEBIFee}

\* In-memory amounts from 0 to 20.0000 in steps of 0.0001/QtyScale.
AmountsRounded == 0..(20 * QtyScale)

\* C25: rounding to 4 decimals is idempotent on fee components: every fee
\* component of every event CreateReward builds, and the rounding of every
\* amount in AmountsRounded, is returned unchanged by roundToDecimal.
C25_RoundingIdempotent ==
    /\ \A c \in Calls :
          event[c] # Nil =>
              \A v \in FeeComponents(Deref(event[c])) \cup {Deref(event[c]).TotalFees} :
                  roundToDecimal(v, 1, 1) = v
    /\ \A v \in AmountsRounded :
          roundToDecimal(roundToDecimal(v, 1, 1), 1, 1) = roundToDecimal(v, 1, 1)

\* An event has a fee component that rounding changed: the STT fee is
\* positive and is not the exact 25 basis points of the total value.
C25_Witness ==
    \E c \in Calls :
        /\ event[c] # Nil
        /\ Deref(event[c]).STTFee > 0
        /\ Deref(event[c]).STTFee * 10000 # Deref(event[c]).TotalValue * STTFeeBC

\* The group ids present in ledger_entries.
LedgerGroupIDs == {ledger_entries[i].entry_group_id : i \in 1..Len(ledger_entries)}

DiffersFrom(r, row) ==
    /\ r.UserID # row.user_id
    /\ r.StockSymbol # row.stock_symbol
    /\ r.SharesQuantity # row.shares_quantity

\* C27: for a key with a stored record the answer of CreateReward depends on
\* the key alone: a call that arrives with that key ends in that step and
\* returns, without error, the scan of the stored row, with the stored
\* user, symbol and quantity, whatever user, symbol and quantity its own
\* request names, whether or not its symbol is in stocks and active, and
\* whether or not a price is stored for it; and the step changes no table.
C27_ReplayDependsOnKeyOnly ==
    [][ \A c \in Calls : \A row \in reward_events :
          (pc[c] = "idle" /\ pc'[c] # "idle"
              /\ req'[c].IdempotencyKey = row.idempotency_key) =>
             /\ result'[c] = Ok(ScanRewardEvent(row))
             /\ pc'[c] = "done"
             /\ Deref(result'[c].event).UserID = row.user_id
             /\ Deref(result'[c].event).StockSymbol = row.stock_symbol
             /\ Deref(result'[c].event).SharesQuantity = row.shares_quantity
             /\ db' = db ]_vars

\* Two replays have returned the record of a key: one named another user,
\* a symbol that is in no table and has no price, and another quantity; the
\* other named the record's symbol after it was delisted.
C27_Witness ==
    \E c, d \in Calls : \E row \in reward_events :
        /\ c # d
        /\ KeyOf(c) = row.idempotency_key /\ KeyOf(d) = row.idempotency_key
        /\ result[c] = Ok(ScanRewardEvent(row))
        /\ result[d] = Ok(ScanRewardEvent(row))
        /\ DiffersFrom(req[c], row)
        /\ req[c].StockSymbol \notin DOMAIN stocks
        /\ stock_prices[req[c].StockSymbol] = NoPrice
        /\ req[d].StockSymbol = row.stock_symbol
        /\ ~stocks[row.stock_symbol]

\* C28: a grant whose record is stored ends with its four postings written
\* whether or not its holdings update succeeded: once a call has returned
\* the record of a key whose holdings write failed, ledger_entries holds the
\* four postings of that record although the position lacks its quantity.
C28_PostingsDespiteHoldingsFailure ==
    \A c \in Calls :
        (ReturnedRecord(c) /\ holdingWrites[KeyOf(c)] = 0) =>
            Len(PostingsOf(StoredRecord(KeyOf(c)).id)) = 4

\* The symbols updateAllPrices has been through in its current call.
UpdaterPassed == {UpdaterStocks[i] : i \in 1..(updater.next - 1)}

\* C29: StartPriceUpdater calls updateAllPrices at once, and every tick
\* received from the ticker starts one more call: the calls started are one
\* plus the ticks delivered and no longer waiting.  Every call goes through
\* the whole list whatever saves fail: the symbols passed are those saved or
\* failed, a turn moves to the next symbol and only the turn for the last
\* symbol ends the call, and a call that is over has been through all of
\* them.
C29_RefreshAtStartAndEachTick ==
    /\ [](IF updater.pc = "off"
          THEN updater.started = 0 /\ updater.delivered = 0
          ELSE updater.started = 1 + updater.delivered - updater.C)
    /\ [](updater.pc # "off" =>
             /\ updater.saved \cup updater.failed = UpdaterPassed
             /\ updater.saved \cap updater.failed = {}
             /\ updater.pc = "waiting" <=> updater.next = Len(UpdaterStocks) + 1)
    /\ [][ /\ (updater.pc = "off" /\ updater'.pc # "off") =>
                  (updater'.pc = "updating" /\ updater'.next = 1)
           /\ (updater.pc = "waiting" /\ updater'.pc # "waiting") =>
                  /\ updater.C = 1 /\ updater'.C = 0
                  /\ updater'.pc = "updating" /\ updater'.next = 1
                  /\ updater'.started = updater.started + 1
           /\ (updater.pc = "updating" /\ updater'.next # updater.next) =>
                  /\ updater'.next = updater.next + 1
                  /\ updater'.started = updater.started
                  /\ UpdaterStocks[updater.next] \in updater'.saved \cup updater'.failed
                  /\ UpdaterStocks[updater.next] \in updater'.saved =>
                         stock_prices'[UpdaterStocks[updater.next]] # NoPrice ]_vars

\* The updater has made its call at the start and one for each of two
\* ticks; in the last one the save of the first symbol failed and the
\* second symbol's snapshot was saved all the same.
C29_Witness ==
    /\ updater.pc = "waiting"
    /\ updater.started = 3 /\ updater.delivered = 2 /\ updater.C = 0
    /\ updater.failed = {UpdaterStocks[1]}
    /\ updater.saved = {UpdaterStocks[2]}
    /\ stock_prices[UpdaterStocks[1]] = NoPrice
    /\ stock_prices[UpdaterStocks[2]] # NoPrice

\* The events of all reward_events rows of a user.
RewardsOf(userID) ==
    {ScanRewardEvent(row) : row \in {x \in reward_events : x.user_id = userID}}

\* C30: at any time, for every user, GetTodayRewards and GetHistoricalRewards
\* have no event in common and together return every reward_events row of
\* the user, whatever rewarded_at the rows carry.
C30_TodayOrHistorical ==
    \A u \in Users :
        /\ GetTodayRewards(u) \cap GetHistoricalRewards(u) = {}
        /\ GetTodayRewards(u) \cup GetHistoricalRewards(u) = RewardsOf(u)

====
